---- MODULE Spec2Model ----
(***************************************************************************)
(* DrawPopup: a React wrapper that keeps a mapboxgl.Popup pinned to a      *)
(* coordinate of a map surface (src/unnamed/part_000, the variant with the *)
(* centralized _setMap / _removeMap helpers).                              *)
(*                                                                         *)
(* The component is single threaded: every handler runs to completion, so  *)
(* each handler is one action.  requestAnimationFrame callbacks are        *)
(* queued (pending) and run back to back when a frame begins (running).    *)
(* The sequence of library calls a handler makes is recorded in log.       *)
(*                                                                         *)
(* mapbox-gl itself is a library, not part of the repository; the few      *)
(* facts about it the component relies on are stated where they are used:  *)
(*   Evented.on / off        add / remove one listener                     *)
(*   Popup.getLngLat         returns _lngLat (undefined until it is set)   *)
(*   Popup.setLngLat(x)      _lngLat = LngLat.convert(x), then _update();  *)
(*                           LngLat.convert throws unless x is an array of *)
(*                           2 or 3 numbers or an object                   *)
(*   Popup._update           returns early without _map, _lngLat or        *)
(*                           _content, else _pos = _map.project(_lngLat)   *)
(***************************************************************************)
EXTENDS Integers, Sequences, FiniteSets, TLC

VARIABLES
  props,      \* this.props: [map, location, options]
  phase,      \* "constructed" | "mounted" | "unmounted"
  popup,      \* this._mbPopup: [options, lngLat, map, container, content, pos]
  subs,       \* per surface: is this._update on 'move', this._removeMap on 'remove'
  portal,     \* [node: this.portalNode is set, attached: it has a parentNode]
  destroyed,  \* surfaces that have emitted 'remove'
  pending,    \* animation-frame callbacks requested for the next frame
  running,    \* callbacks of the current frame that have not run yet
  frameWork,  \* recomputations performed by the frame that is running or has
              \* just run (0 again once another handler runs)
  triggers,   \* calls of this._update since the last frame began
  unmounts,   \* calls of componentWillUnmount so far
  removals,   \* removeChild calls the component has made on the portal node
  last,       \* the handler that ran last
  raised,     \* the last handler ended by throwing
  log,        \* the calls made by the last handler, in order
  dom,        \* geometry of the page: rects, scroll, viewport, popup size, map pan
  out         \* result of a direct call of the geometry functions

vars == <<props, phase, popup, subs, portal, destroyed, pending, running,
          frameWork, triggers, unmounts, removals, last, raised, log, dom, out>>

(***************************************************************************)
(* Bounds and value domains                                                *)
(***************************************************************************)
MaxPending == 2
MaxUnmounts == 2

Surfaces == {"m1", "m2"}
NoMap == "none"

Absent == "absent"
NoSeq == << >>

DEFAULT_MAX_WIDTH == "260px"
ANCHOR_DELIMITER == "-"

\* A location prop: a JS array (val = its numbers), null, or an object {lon, lat}.
LocArray(v) == [kind |-> "array", val |-> v]
LocNull == [kind |-> "null", val |-> NoSeq]
LocObject(v) == [kind |-> "object", val |-> v]

OptionKeys == {"closeButton", "closeOnClick", "maxWidth", "offset", "anchor"}

\* An options object, by its own keys: Absent (NoSeq for offset) is a key the
\* object does not have.  Reading such a key of the popup's options gives what
\* mapboxgl.Popup defaults to (closeButton and closeOnClick true) as long as
\* the options are the object the library built, and undefined once the
\* component has replaced them by an object spread.

NoOptions ==
  [closeButton |-> Absent, closeOnClick |-> Absent, maxWidth |-> Absent,
   offset |-> NoSeq, anchor |-> Absent]

\* static defaultProps: React substitutes them for a prop that is undefined.
defaultProps ==
  [location |-> LocArray(NoSeq),
   options |-> [NoOptions EXCEPT !.closeButton = "false",
                                 !.closeOnClick = "false",
                                 !.maxWidth = DEFAULT_MAX_WIDTH]]

\* What a caller may pass: a prop left undefined, or a value.
LocUndefined == [kind |-> "undefined", val |-> NoSeq]
OptUndefined == [given |-> FALSE, val |-> NoOptions]
OptGiven(o) == [given |-> TRUE, val |-> o]

CallerLocations ==
  {LocUndefined, LocNull, LocArray(<<0, 0>>), LocArray(<<1, 2>>),
   LocObject(<<1, 2>>)}

\* The options a caller gives name only some keys, and may name offset and anchor.
CallerOptions ==
  {OptUndefined,
   OptGiven([NoOptions EXCEPT !.closeButton = "true", !.anchor = "left",
                              !.offset = <<7, 7>>])}

CallerProps ==
  [map : Surfaces \cup {NoMap}, location : CallerLocations, options : CallerOptions]

\* React resolves defaultProps when the element is created.
ResolveDefaults(cp) ==
  [map |-> cp.map,
   location |-> IF cp.location.kind = "undefined" THEN defaultProps.location
                ELSE cp.location,
   options |-> IF cp.options.given THEN cp.options.val ELSE defaultProps.options]

\* Page geometry of the state machine: two surfaces at different places of a
\* 400 x 400 viewport scrolled by (5, 5), a 100 x 50 popup.
MainDom ==
  [rect |-> [s \in Surfaces |-> IF s = "m1" THEN <<10, 20>> ELSE <<300, 380>>],
   pan |-> [s \in Surfaces |-> 0],
   scrollX |-> 5, scrollY |-> 5,
   clientW |-> 400, clientH |-> 400,
   width |-> 100, height |-> 50]

NoOut == [anchor |-> Absent, offset |-> NoSeq]

(***************************************************************************)
(* Helpers of the model: own keys of an options object, object spread      *)
(***************************************************************************)
Has(o, k) == IF k = "offset" THEN o[k] # NoSeq ELSE o[k] # Absent

\* { ...a, ...b }
Spread(a, b) == [k \in OptionKeys |-> IF Has(b, k) THEN b[k] ELSE a[k]]

Bound(s) == {m \in Surfaces : s[m].move \/ s[m].remove}

\* One call a handler makes, with the listeners and the popup options it leaves.
Step(c, op, ev, m) ==
  [c EXCEPT !.log = Append(@, [op |-> op, ev |-> ev, map |-> m,
                               bound |-> Bound(c.subs),
                               options |-> c.popup.options])]

\* map.on(ev, listener) / map.off(ev, listener)
On(c, m, ev) == Step([c EXCEPT !.subs[m][ev] = TRUE], "on", ev, m)
Off(c, m, ev) == Step([c EXCEPT !.subs[m][ev] = FALSE], "off", ev, m)

Throw(c, what) == [Step(c, "throw", what, "") EXCEPT !.raised = TRUE]

(***************************************************************************)
(* Geometry functions of the component                                     *)
(***************************************************************************)
RECURSIVE Join(_, _)
\* Array.prototype.join
Join(parts, delim) ==
  IF parts = << >> THEN ""
  ELSE IF Len(parts) = 1 THEN parts[1]
  ELSE parts[1] \o delim \o Join(Tail(parts), delim)

\* The vertical test with the viewport's edge counted as overflow
VerticalTagInclusive(at, size, client) ==
  IF at + size >= client /\ at - size > 0 THEN <<"bottom">>
  ELSE IF at + size < client /\ at - size < 0 THEN <<"top">>
  ELSE << >>

\* The vertical and the horizontal test of _calculateAnchorPosition, for a box
\* of the given size at coordinate at (bounds + pos) in a viewport of the
\* given client size.
VerticalTag(at, size, client) ==
  IF at + size > client /\ at - size > 0 THEN <<"bottom">>
  ELSE IF at + size < client /\ at - size < 0 THEN <<"top">>
  ELSE << >>

\* The horizontal test giving no tag to a box wider than the viewport
HorizontalTagFitting(at, size, client) ==
  IF size > client THEN << >>
  ELSE IF at + size > client /\ at - size > 0 THEN <<"right">>
  ELSE IF at + size < client /\ at - size < 0 THEN <<"left">>
  ELSE << >>

HorizontalTag(at, size, client) ==
  IF at + size > client /\ at - size > 0 THEN <<"right">>
  ELSE IF at + size < client /\ at - size < 0 THEN <<"left">>
  ELSE << >>

\* _calculateAnchorPosition pushing the horizontal tag first
_calculateAnchorHorizontalFirst(pos, d, m) ==
  LET bounds == d.rect[m]
      anchorComponents ==
        HorizontalTag(bounds[1] + pos[1], d.width, d.clientW)
          \o VerticalTag(bounds[2] + pos[2], d.height, d.clientH)
  IN  Join(anchorComponents, ANCHOR_DELIMITER)

\* pos = this._mbPopup._pos, d.width / d.height = the container's offsetWidth /
\* offsetHeight, bounds = the bounding rect of this.props.map._container.
_calculateAnchorPosition(pos, d, m) ==
  LET bounds == d.rect[m]
      anchorComponents ==
        VerticalTag(bounds[2] + pos[2], d.height, d.clientH)
          \o HorizontalTag(bounds[1] + pos[1], d.width, d.clientW)
  IN  Join(anchorComponents, ANCHOR_DELIMITER)

\* _calculateOffset adding the scroll of the other axis
_calculateOffsetScrollSwapped(d, m) ==
  LET bounds == d.rect[m]
  IN  <<bounds[1] + d.scrollY, bounds[2] + d.scrollX>>

_calculateOffset(d, m) ==
  LET bounds == d.rect[m]
  IN  <<bounds[1] + d.scrollX, bounds[2] + d.scrollY>>

\* The i-th element of a JS array, << >> standing for undefined.
Elem(v, i) == IF i <= Len(v) THEN <<v[i]>> ELSE << >>

\* "true" / "false", or "throw": destructuring [newLng, newLat] from an object
\* that is not iterable is a TypeError.
_isLocationChanged(p, pop) ==
  IF p.location.kind = "object" THEN "throw"
  ELSE LET cur == pop.lngLat      \* getLngLat() || {}
           new == IF p.location.kind = "null" THEN << >> ELSE p.location.val
       IN  IF Elem(cur, 1) # Elem(new, 1) \/ Elem(cur, 2) # Elem(new, 2)
           THEN "true" ELSE "false"

(***************************************************************************)
(* Map surface binding                                                     *)
(***************************************************************************)
\* _removeMap leaving the 'remove' listener on the surface
_removeMapMoveOnly(c) ==
  IF c.popup.map # NoMap
  THEN LET m == c.popup.map
           c1 == Off(c, m, "move")
       IN  [c1 EXCEPT !.popup.map = NoMap]
  ELSE c

_removeMap(c) ==
  IF c.popup.map # NoMap
  THEN LET m == c.popup.map
           c1 == Off(c, m, "move")
           c2 == Off(c1, m, "remove")
       IN  [c2 EXCEPT !.popup.map = NoMap]
  ELSE c

\* _setMap without its call of _removeMap
_setMapKeepingOld(c, map) ==
  IF map = c.popup.map THEN c
  ELSE LET c2 == [c EXCEPT !.popup.map = map]
           c3 == On(c2, map, "move")
       IN  On(c3, map, "remove")

_setMap(c, map) ==
  IF map = c.popup.map THEN c
  ELSE LET c1 == _removeMap(c)
           c2 == [c1 EXCEPT !.popup.map = map]
           c3 == On(c2, map, "move")
       IN  On(c3, map, "remove")

(***************************************************************************)
(* The popup model (library)                                               *)
(***************************************************************************)
\* map.project(lngLat): the pixel position of a coordinate in the surface's
\* own frame; it moves with the surface's pan.
Project(d, m, ll) == <<ll[1] * 100 + d.pan[m], ll[2] * 100 + d.pan[m]>>

\* this._mbPopup._update()
PopupUpdate(c, d) ==
  LET pop == c.popup
      c1 == Step(c, "refresh", "", "")
  IN  IF pop.map = NoMap \/ pop.lngLat = NoSeq \/ ~pop.content THEN c1
      ELSE [c1 EXCEPT !.popup.pos = Project(d, pop.map, pop.lngLat)]

\* this._mbPopup.setLngLat(location)
PopupSetLngLat(c, location, d) ==
  IF (location.kind = "array" /\ Len(location.val) \in {2, 3})
       \/ location.kind = "object"
  THEN LET c1 == Step(c, "setLngLat", "", "")
       IN  PopupUpdate([c1 EXCEPT !.popup.lngLat = SubSeq(location.val, 1, 2)], d)
  ELSE Throw(c, "LngLat.convert")

(***************************************************************************)
(* _update: the body of the animation-frame callback                       *)
(***************************************************************************)
\* c = [popup, subs, portal, log, raised] is the component's state, p the
\* props and d the page geometry when the callback runs.  An aborted callback
\* leaves the log empty.

\* The merge with the computed offset and anchor spread last
MergeComputedLast(c, p, d) ==
  LET computed == [NoOptions EXCEPT !.offset = _calculateOffset(d, p.map),
                                    !.anchor = "null"]
      merged == Spread(Spread(c.popup.options, p.options), computed)
  IN  Step([c EXCEPT !.popup.options = merged], "merge", "", "")

\* this._mbPopup.options = { ...options, offset, anchor: null, ...props.options }
MergeOptions(c, p, d) ==
  LET computed == [NoOptions EXCEPT !.offset = _calculateOffset(d, p.map),
                                    !.anchor = "null"]
      merged == Spread(Spread(c.popup.options, computed), p.options)
  IN  Step([c EXCEPT !.popup.options = merged], "merge", "", "")

\* if (this._isLocationChanged()) setLngLat(location); if (!updated) _update()
SetOrRefresh(c, p, d) ==
  LET location == IF p.location.kind = "undefined" THEN LocArray(<<0, 0>>)
                  ELSE p.location
      changed == _isLocationChanged(p, c.popup)
  IN  IF changed = "throw" THEN Throw(c, "TypeError")
      ELSE IF changed = "true" THEN PopupSetLngLat(c, location, d)
      ELSE PopupUpdate(c, d)

\* this._mbPopup.options.anchor = this._calculateAnchorPosition(): reading
\* pos.y of a position that was never computed is a TypeError.
AssignAnchor(c, p, d) ==
  IF c.popup.pos = NoSeq THEN Throw(c, "TypeError")
  ELSE Step([c EXCEPT !.popup.options.anchor =
                _calculateAnchorPosition(c.popup.pos, d, p.map)],
            "anchor", "", "")

\* The callback past its guard.
SynchronizeBody(c, p, d) ==
  LET c1 == MergeOptions(c, p, d)
      c2 == _setMap(c1, p.map)
      c3 == SetOrRefresh(c2, p, d)
      c4 == IF c3.raised THEN c3 ELSE AssignAnchor(c3, p, d)
  IN  IF c4.raised THEN c4 ELSE PopupUpdate(c4, d)

\* The callback with no test of the map prop: _calculateOffset reads
\* _container of an absent map
SynchronizeAnyMap(c, p, d) ==
  IF ~c.popup.container \/ ~c.popup.content THEN c
  ELSE IF p.map = NoMap THEN Throw(c, "TypeError")
  ELSE SynchronizeBody(c, p, d)

\* The callback with no test of the container and content references
SynchronizeUnguarded(c, p, d) ==
  IF p.map = NoMap THEN c ELSE SynchronizeBody(c, p, d)

Synchronize(c, p, d) ==
  IF p.map = NoMap \/ ~c.popup.container \/ ~c.popup.content THEN c
  ELSE SynchronizeBody(c, p, d)

\* _remove testing this.portalNode only: removeChild of a null parentNode throws
_removeAnyParent(c) ==
  LET c1 == _removeMap([c EXCEPT !.popup.container = FALSE,
                                 !.popup.content = FALSE])
  IN  IF c1.portal.node
      THEN IF c1.portal.attached
           THEN Step([c1 EXCEPT !.portal = [node |-> FALSE, attached |-> FALSE]],
                     "removeChild", "", "")
           ELSE Throw(c1, "TypeError")
      ELSE c1

\* _remove without the test of this.portalNode: reading parentNode of null throws
_removeUnguarded(c) ==
  LET c1 == _removeMap([c EXCEPT !.popup.container = FALSE,
                                 !.popup.content = FALSE])
  IN  IF ~c1.portal.node THEN Throw(c1, "TypeError")
      ELSE IF c1.portal.attached
      THEN Step([c1 EXCEPT !.portal = [node |-> FALSE, attached |-> FALSE]],
                "removeChild", "", "")
      ELSE c1

_remove(c) ==
  LET c1 == _removeMap([c EXCEPT !.popup.container = FALSE,
                                 !.popup.content = FALSE])
  IN  IF c1.portal.node /\ c1.portal.attached
      THEN Step([c1 EXCEPT !.portal = [node |-> FALSE, attached |-> FALSE]],
                "removeChild", "", "")
      ELSE c1

(***************************************************************************)
(* The state machine                                                       *)
(***************************************************************************)
Comp ==
  [popup |-> popup, subs |-> subs, portal |-> portal, log |-> << >>,
   raised |-> FALSE]

\* The handler named h ends with the component in state c.
Commit(h, c) ==
  /\ popup' = c.popup
  /\ subs' = c.subs
  /\ portal' = c.portal
  /\ log' = c.log
  /\ raised' = c.raised
  /\ last' = h

Idle == running = 0

\* How many of the calls in a handler's log are removeChild calls.
RemoveChildCalls(l) == Cardinality({i \in 1..Len(l) : l[i].op = "removeChild"})

\* A requestAnimationFrame that calls the callback at once
ScheduledRunNow(c, p, d) == Synchronize(c, p, d)

\* What requestAnimationFrame(callback) does to the component before it
\* returns: nothing, the callback is only queued.
Scheduled(c, p, d) == c

\* A requestAnimationFrame that keeps at most one callback waiting
requestCoalesced(n) == IF n = 0 THEN 1 ELSE n

\* requestAnimationFrame(callback): one more callback waits for the next frame.
requestAnimationFrame(n) == n + 1

\* this._update(): nothing but the request of a callback.
_update ==
  /\ pending' = requestAnimationFrame(pending)
  /\ triggers' = triggers + 1

\* The state after the constructor.
Init ==
  /\ props \in {ResolveDefaults(cp) : cp \in CallerProps}
  /\ phase = "constructed"
  /\ popup = [options |-> props.options, lngLat |-> NoSeq, map |-> NoMap,
              container |-> FALSE, content |-> FALSE, pos |-> NoSeq]
  /\ subs = [s \in Surfaces |-> [move |-> FALSE, remove |-> FALSE]]
  /\ portal = [node |-> TRUE, attached |-> TRUE]
  /\ destroyed = {}
  /\ pending = 0
  /\ running = 0
  /\ frameWork = 0
  /\ triggers = 0
  /\ unmounts = 0
  /\ removals = 0
  /\ last = "constructor"
  /\ raised = FALSE
  /\ log = << >>
  /\ dom = MainDom
  /\ out = NoOut

\* React commits the first render (the ref callbacks receive their elements)
\* and calls componentDidMount.
Mount ==
  /\ phase = "constructed"
  /\ phase' = "mounted"
  /\ Commit("componentDidMount",
            Scheduled([Comp EXCEPT !.popup.container = TRUE,
                                   !.popup.content = TRUE], props, dom))
  /\ _update
  /\ UNCHANGED <<props, destroyed, running, unmounts, removals, dom, out>>
  /\ frameWork' = 0

\* The caller renders the component with new props: componentDidUpdate.
Update(cp) ==
  /\ phase = "mounted"
  /\ Idle
  /\ pending < MaxPending
  /\ props' = ResolveDefaults(cp)
  /\ _update
  /\ Commit("componentDidUpdate", Scheduled(Comp, props', dom))
  /\ UNCHANGED <<phase, destroyed, running, unmounts, removals, dom, out>>
  /\ frameWork' = 0

\* A surface the component is subscribed to pans and emits 'move':
\* this._update runs.
Moved(s) ==
  /\ Idle
  /\ s \notin destroyed
  /\ subs[s].move
  /\ pending < MaxPending
  /\ dom' = [dom EXCEPT !.pan[s] = 250 - @]
  /\ _update
  /\ Commit("move", Scheduled(Comp, props, dom'))
  /\ UNCHANGED <<props, phase, destroyed, running, unmounts, removals, out>>
  /\ frameWork' = 0

\* The popup's content calls the updatePosition callback it was rendered with.
UpdatePosition ==
  /\ phase = "mounted"
  /\ Idle
  /\ pending < MaxPending
  /\ _update
  /\ Commit("updatePosition", Scheduled(Comp, props, dom))
  /\ UNCHANGED <<props, phase, destroyed, running, unmounts, removals, dom, out>>
  /\ frameWork' = 0

\* A surface the component is subscribed to is removed and emits 'remove':
\* this._removeMap runs.
Destroyed(s) ==
  /\ Idle
  /\ s \notin destroyed
  /\ subs[s].remove
  /\ destroyed' = destroyed \cup {s}
  /\ Commit("remove", _removeMap(Comp))
  /\ UNCHANGED <<props, phase, pending, running, triggers, unmounts,
                 removals, dom, out>>
  /\ frameWork' = 0

\* componentWillUnmount; a second call finds the component torn down.
Unmount ==
  /\ phase \in {"mounted", "unmounted"}
  /\ Idle
  /\ unmounts < MaxUnmounts
  /\ unmounts' = unmounts + 1
  /\ phase' = "unmounted"
  /\ LET c == _remove(Comp)
     IN  /\ Commit("componentWillUnmount", c)
         /\ removals' = removals + RemoveChildCalls(c.log)
  /\ UNCHANGED <<props, destroyed, pending, running, triggers, dom, out>>
  /\ frameWork' = 0

\* Code outside the component takes the portal node out of the document (the
\* body is emptied or replaced); this.portalNode still refers to the node.
PortalDetached ==
  /\ phase = "mounted"
  /\ Idle
  /\ portal.node
  /\ portal.attached
  /\ Commit("detached", [Comp EXCEPT !.portal.attached = FALSE])
  /\ UNCHANGED <<props, phase, destroyed, pending, running, triggers, unmounts,
                 removals, dom, out>>
  /\ frameWork' = 0

\* An animation frame begins: the callbacks requested so far will run, back to
\* back, before anything else.
FrameBegin ==
  /\ Idle
  /\ pending > 0
  /\ running' = pending
  /\ pending' = 0
  /\ triggers' = 0
  /\ frameWork' = 0
  /\ Commit("frame", Comp)
  /\ UNCHANGED <<props, phase, destroyed, unmounts, removals, dom, out>>

\* The next callback of the frame runs.
RunCallback ==
  /\ running > 0
  /\ LET c == Synchronize(Comp, props, dom)
     IN  /\ Commit("callback", c)
         /\ frameWork' = IF c.log = << >> THEN frameWork ELSE frameWork + 1
  /\ running' = running - 1
  /\ UNCHANGED <<props, phase, destroyed, pending, triggers, unmounts, removals,
                 dom, out>>

Next ==
  \/ Mount
  \/ \E cp \in CallerProps : Update(cp)
  \/ \E s \in Surfaces : Moved(s)
  \/ UpdatePosition
  \/ \E s \in Surfaces : Destroyed(s)
  \/ Unmount
  \/ PortalDetached
  \/ FrameBegin
  \/ RunCallback

Spec == Init /\ [][Next]_vars

(***************************************************************************)
(* The geometry functions on their own: a mounted popup bound to m1, with  *)
(* the pixel position, rect, scroll and viewport drawn from sets that hold *)
(* both sides of every comparison and the equalities between them.         *)
(***************************************************************************)
Pixels == {-30, -20, -10, 30, 50, 90, 100, 290, 300, 330, 350, 380, 500}

GeometryDoms ==
  {[rect |-> [s \in Surfaces |-> r], pan |-> [s \in Surfaces |-> 0],
    scrollX |-> sc[1], scrollY |-> sc[2],
    clientW |-> cl[1], clientH |-> cl[2],
    width |-> sz[1], height |-> sz[2]] :
     r \in {<<0, 0>>, <<10, 20>>},
     sc \in {<<0, 0>>, <<5, 5>>, <<3, 8>>},
     cl \in {<<400, 400>>, <<80, 400>>, <<400, 40>>, <<80, 40>>},
     sz \in {<<100, 50>>, <<30, 30>>}}

InitGeometry ==
  /\ props = [map |-> "m1", location |-> LocArray(<<1, 2>>),
              options |-> defaultProps.options]
  /\ phase = "mounted"
  /\ dom \in GeometryDoms
  /\ \E pos \in Pixels \X Pixels :
       popup = [options |-> defaultProps.options, lngLat |-> <<1, 2>>,
                map |-> "m1", container |-> TRUE, content |-> TRUE, pos |-> pos]
  /\ subs = [s \in Surfaces |-> [move |-> s = "m1", remove |-> s = "m1"]]
  /\ portal = [node |-> TRUE, attached |-> TRUE]
  /\ destroyed = {}
  /\ pending = 0
  /\ running = 0
  /\ frameWork = 0
  /\ triggers = 0
  /\ unmounts = 0
  /\ removals = 0
  /\ last = "constructor"
  /\ raised = FALSE
  /\ log = << >>
  /\ out = NoOut

CalculateAnchor ==
  /\ out' = [out EXCEPT !.anchor = _calculateAnchorPosition(popup.pos, dom, props.map)]
  /\ UNCHANGED <<props, phase, popup, subs, portal, destroyed, pending, running,
                 frameWork, triggers, unmounts, removals, last, raised, log, dom>>

CalculateOffset ==
  /\ out' = [out EXCEPT !.offset = _calculateOffset(dom, props.map)]
  /\ UNCHANGED <<props, phase, popup, subs, portal, destroyed, pending, running,
                 frameWork, triggers, unmounts, removals, last, raised, log, dom>>

NextGeometry == CalculateAnchor \/ CalculateOffset

SpecGeometry == InitGeometry /\ [][NextGeometry]_vars

(***************************************************************************)
(* Properties                                                              *)
(***************************************************************************)
\* What the guard at the top of the callback lets through.
GuardPasses == props.map # NoMap /\ popup.container /\ popup.content

LogOps == [i \in 1..Len(log) |-> log[i].op]

\* C1: at most one map surface holds the component's 'move' and 'remove'
\* subscriptions, in every state and after every single call a handler makes:
\* when a new surface is subscribed, the old one has been unsubscribed before.
C1_OneSurfaceBound ==
  /\ Cardinality(Bound(subs)) <= 1
  /\ \A i \in 1..Len(log) : Cardinality(log[i].bound) <= 1

\* A callback has replaced one bound surface by another.
C1_Witness ==
  /\ last = "callback"
  /\ ~raised
  /\ \E i, j \in 1..Len(log) :
       /\ i < j
       /\ log[i].op = "off" /\ log[j].op = "on"
       /\ log[i].map # log[j].map

\* C2: componentWillUnmount never throws and leaves the portal detached and no
\* subscription; called on a component that is already unmounted it changes
\* nothing.
C2_UnmountIdempotent ==
  [][Unmount =>
       /\ ~raised'
       /\ ~portal'.attached
       /\ Bound(subs') = {}
       /\ phase = "unmounted" =>
            /\ popup' = popup
            /\ subs' = subs
            /\ portal' = portal
            /\ phase' = phase]_vars

\* componentWillUnmount has run for the second time.
C2_Witness == last = "componentWillUnmount" /\ unmounts >= 2

\* C3: a callback that runs after the unmount changes nothing: the popup (its
\* options, coordinate, anchor, bound surface), the subscriptions and the
\* portal stay as they were, and nothing is thrown.
C3_CallbackAfterUnmountInert ==
  [][(RunCallback /\ phase = "unmounted") =>
       /\ UNCHANGED <<popup, subs, portal>>
       /\ log' = << >>
       /\ ~raised']_vars

\* The last callback of a frame requested before the unmount has run after it,
\* with a map surface still in the props.
C3_Witness ==
  /\ last = "callback"
  /\ phase = "unmounted"
  /\ props.map # NoMap
  /\ running = 0

\* A coordinate prop: [lng, lat] or { lon, lat }, as the propTypes declare.
IsCoordinate(l) == l.kind \in {"array", "object"} /\ Len(l.val) = 2

\* C4: mounted with a map surface, once a callback has run the rendered
\* coordinate is the coordinate of the latest props.
C4_RenderedIsLatest ==
  (last = "callback" /\ phase = "mounted" /\ GuardPasses
     /\ IsCoordinate(props.location))
    => (~raised /\ popup.lngLat = props.location.val)

\* C4 for coordinates given as arrays [lng, lat] only.
C4_ArrayForm ==
  (last = "callback" /\ phase = "mounted" /\ GuardPasses
     /\ props.location.kind = "array" /\ Len(props.location.val) = 2)
    => (~raised /\ popup.lngLat = props.location.val)

C6_NoSubscriptionOnDestroyed ==
  \A s \in destroyed : ~subs[s].move /\ ~subs[s].remove

\* C7: a callback that finds the props' coordinate equal to the rendered one
\* does not set it again, and refreshes the geometry, recomputes the offset
\* and recomputes the anchor from the refreshed position.
C7_SameCoordinateStillRefreshes ==
  [][(RunCallback /\ GuardPasses /\ IsCoordinate(props.location)
        /\ props.location.val = popup.lngLat) =>
       /\ ~raised'
       /\ popup'.lngLat = popup.lngLat
       /\ LogOps' \in {<<"merge", "refresh", "anchor", "refresh">>,
                       <<"merge", "on", "on", "refresh", "anchor", "refresh">>,
                       <<"merge", "off", "off", "on", "on", "refresh", "anchor",
                         "refresh">>}
       /\ popup'.options.offset =
            IF props.options.offset # NoSeq THEN props.options.offset
            ELSE <<dom.rect[props.map][1] + dom.scrollX,
                   dom.rect[props.map][2] + dom.scrollY>>
       /\ popup'.pos = Project(dom, props.map, popup.lngLat)
       /\ popup'.options.anchor =
            _calculateAnchorPosition(popup'.pos, dom, props.map)]_vars

\* C7 for coordinates given as arrays [lng, lat] only.
C7_ArrayForm ==
  [][(RunCallback /\ GuardPasses /\ props.location.kind = "array"
        /\ Len(props.location.val) = 2
        /\ props.location.val = popup.lngLat) =>
       /\ ~raised'
       /\ popup'.lngLat = popup.lngLat
       /\ LogOps' \in {<<"merge", "refresh", "anchor", "refresh">>,
                       <<"merge", "on", "on", "refresh", "anchor", "refresh">>,
                       <<"merge", "off", "off", "on", "on", "refresh", "anchor",
                         "refresh">>}
       /\ popup'.options.offset =
            IF props.options.offset # NoSeq THEN props.options.offset
            ELSE <<dom.rect[props.map][1] + dom.scrollX,
                   dom.rect[props.map][2] + dom.scrollY>>
       /\ popup'.pos = Project(dom, props.map, popup.lngLat)
       /\ popup'.options.anchor =
            _calculateAnchorPosition(popup'.pos, dom, props.map)]_vars

\* C8: after a callback that found the location prop absent (the default
\* empty list) or null, nothing was thrown and the rendered coordinate is (0, 0).
C8_AbsentIsOrigin ==
  (last = "callback" /\ phase = "mounted" /\ GuardPasses
     /\ props.location \in {defaultProps.location, LocNull})
    => (~raised /\ popup.lngLat = <<0, 0>>)

NineAnchors ==
  {"", "top", "bottom", "left", "right", "top-left", "top-right", "bottom-left",
   "bottom-right"}

\* C9: whatever the position, the size, the rect and the viewport, the anchor
\* _calculateAnchorPosition returns is one of the nine descriptors: vertical
\* tag first, then the horizontal tag, joined by '-'.
C9_AnchorIsOneOfNine == out.anchor # Absent => out.anchor \in NineAnchors

\* The function has returned a vertical and a horizontal tag, joined.
C9_Witness == out.anchor = "bottom-right"

\* C10: the anchor names "bottom" exactly when the popup placed downward
\* passes the viewport's bottom and placed upward stays below its top, "top"
\* exactly in the opposite case, and likewise "right" / "left"; so a popup 50
\* high that overflows a viewport 400 high downward and fits upward gets
\* "bottom".
C10_TagsFollowOverflow ==
  out.anchor # Absent =>
    LET X == dom.rect[props.map][1] + popup.pos[1]
        Y == dom.rect[props.map][2] + popup.pos[2]
        w == dom.width
        h == dom.height
        W == dom.clientW
        H == dom.clientH
    IN  /\ out.anchor \in {"bottom", "bottom-left", "bottom-right"}
             <=> (Y + h > H /\ Y - h > 0)
        /\ out.anchor \in {"top", "top-left", "top-right"}
             <=> (Y + h < H /\ Y - h < 0)
        /\ out.anchor \in {"right", "top-right", "bottom-right"}
             <=> (X + w > W /\ X - w > 0)
        /\ out.anchor \in {"left", "top-left", "bottom-left"}
             <=> (X + w < W /\ X - w < 0)
        /\ (h = 50 /\ H = 400 /\ Y + 50 > 400 /\ Y - 50 > 0)
             => out.anchor \in {"bottom", "bottom-left", "bottom-right"}

\* A popup 50 high in a viewport 400 high has got an anchor with "bottom".
C10_Witness ==
  /\ dom.height = 50
  /\ dom.clientH = 400
  /\ out.anchor \in {"bottom", "bottom-left", "bottom-right"}

ListedDefaults == {"closeButton", "closeOnClick", "maxWidth"}

\* C11: at construction and after every callback that passed its guard, each
\* of closeButton, closeOnClick and maxWidth has on the popup the caller's
\* value when the caller's options name it and the default (false, false,
\* "260px") when they do not.
C11_DefaultsMergedKeyByKey ==
  (last = "constructor" \/ (last = "callback" /\ log # << >>)) =>
    \A k \in ListedDefaults :
      popup.options[k] = IF Has(props.options, k) THEN props.options[k]
                         ELSE defaultProps.options[k]

\* C12: the portal node is attached after the constructor; the component
\* detaches it only in componentWillUnmount and calls removeChild at most once
\* in its life, exactly once when the first unmount finds it attached; an
\* unmount that finds it detached removes nothing and throws nothing.
C12_PortalRemovedAtMostOnce ==
  /\ [](last = "constructor" => (portal.node /\ portal.attached))
  /\ [](removals <= 1)
  /\ [][(portal.attached /\ ~portal'.attached) => (Unmount \/ PortalDetached)]_vars
  /\ [][(Unmount /\ unmounts = 0 /\ portal.attached) =>
          (removals' = 1 /\ ~portal'.attached)]_vars
  /\ [][(Unmount /\ ~portal.attached) =>
          (removals' = removals /\ ~raised' /\ RemoveChildCalls(log') = 0)]_vars

\* componentWillUnmount has found the portal node taken out of the document
\* by other code, and has removed nothing.
C12_Witness ==
  /\ last = "componentWillUnmount"
  /\ portal.node
  /\ ~portal.attached
  /\ removals = 0

\* C13: the offset _calculateOffset returns is the rect's x plus the page's
\* horizontal scroll and the rect's y plus its vertical scroll; for a rect at
\* (10, 20) and a scroll of (5, 5) it is (15, 25).
C13_OffsetIsRectPlusScroll ==
  out.offset # NoSeq =>
    /\ out.offset[1] = dom.rect[props.map][1] + dom.scrollX
    /\ out.offset[2] = dom.rect[props.map][2] + dom.scrollY
    /\ (dom.rect[props.map] = <<10, 20>> /\ dom.scrollX = 5 /\ dom.scrollY = 5)
         => out.offset = <<15, 25>>

\* The offset of a rect at (10, 20) on a page scrolled by (5, 5) was computed.
C13_Witness ==
  /\ dom.rect[props.map] = <<10, 20>>
  /\ dom.scrollX = 5
  /\ dom.scrollY = 5
  /\ out.offset = <<15, 25>>

\* C14: a callback that finds the map prop, the container reference or the
\* content reference absent makes no call and throws nothing; the popup (its
\* options with offset and anchor, its coordinate, its bound surface), the
\* subscriptions and the portal stay as they were and no callback is requested.
C14_AbortedCallbackIsSilent ==
  [][(RunCallback /\ ~GuardPasses) =>
       /\ UNCHANGED <<popup, subs, portal>>
       /\ log' = << >>
       /\ ~raised'
       /\ UNCHANGED <<pending, triggers>>]_vars

\* A callback has run on a mounted component whose map prop is absent while a
\* surface bound earlier is still bound.
C14_Witness ==
  /\ last = "callback"
  /\ phase = "mounted"
  /\ props.map = NoMap
  /\ popup.map # NoMap
  /\ log = << >>

\* C15: the first call of a callback that passed its guard is the merge, and
\* the options it leaves have, for every key of the caller's options (offset
\* and anchor included), the caller's value; else for offset the offset
\* computed from the map's rect and the page scroll, for anchor null, and for
\* every other key the value the popup had before.
C15_MergeOrder ==
  [][(RunCallback /\ GuardPasses) =>
       /\ Len(log') >= 1
       /\ log'[1].op = "merge"
       /\ \A k \in OptionKeys :
            log'[1].options[k] =
              IF Has(props.options, k) THEN props.options[k]
              ELSE IF k = "offset"
                   THEN <<dom.rect[props.map][1] + dom.scrollX,
                          dom.rect[props.map][2] + dom.scrollY>>
              ELSE IF k = "anchor" THEN "null"
              ELSE popup.options[k]]_vars

\* A merge has taken offset and anchor from the caller's options and kept
\* maxWidth, which the caller's options do not name, from the options before.
C15_Witness ==
  /\ last = "callback"
  /\ Len(log) >= 1
  /\ log[1].op = "merge"
  /\ props.options.offset = <<7, 7>>
  /\ log[1].options.offset = <<7, 7>>
  /\ log[1].options.anchor = "left"
  /\ props.options.maxWidth = Absent
  /\ log[1].options.maxWidth = DEFAULT_MAX_WIDTH

\* The calls of _setMap: none, a first binding, or a swap.
BindingCalls == {<< >>, <<"on", "on">>, <<"off", "off", "on", "on">>}

\* merge, binding, then setLngLat (which refreshes) or the forced refresh, then
\* the anchor assignment, then the final refresh.
SynchronizeOrders ==
  {<<"merge">> \o b \o m \o <<"anchor", "refresh">> :
     b \in BindingCalls, m \in {<<"setLngLat", "refresh">>, <<"refresh">>}}

\* C16: every callback that passed its guard makes its calls in the order
\* merge, binding, one of setLngLat or forced refresh, anchor assignment, final
\* refresh; the position the anchor was computed from is the projection of the
\* rendered coordinate on the map as it is now.
C16_StepOrder ==
  [][(RunCallback /\ GuardPasses) =>
       /\ LogOps' \in SynchronizeOrders
       /\ popup'.lngLat # NoSeq
       /\ popup'.pos = Project(dom, props.map, popup'.lngLat)
       /\ popup'.options.anchor =
            _calculateAnchorPosition(popup'.pos, dom, props.map)]_vars

\* C16 for coordinates given as arrays [lng, lat] only.
C16_ArrayForm ==
  [][(RunCallback /\ GuardPasses /\ props.location.kind = "array"
        /\ Len(props.location.val) = 2) =>
       /\ LogOps' \in SynchronizeOrders
       /\ popup'.lngLat # NoSeq
       /\ popup'.pos = Project(dom, props.map, popup'.lngLat)
       /\ popup'.options.anchor =
            _calculateAnchorPosition(popup'.pos, dom, props.map)]_vars

\* The handlers that call this._update, and the begin of a frame.
TriggerHandlers == {"componentDidMount", "componentDidUpdate", "move", "updatePosition"}

\* C17: componentDidMount, componentDidUpdate, a 'move' event and
\* updatePosition request one callback and make no call; until the callback
\* runs the popup's options, coordinate, position and bound surface and the
\* subscriptions are what they were (a new map prop is not bound, the old
\* surface not unbound).
C17_TriggersOnlySchedule ==
  /\ [][last' \in TriggerHandlers =>
          /\ popup'.options = popup.options
          /\ popup'.lngLat = popup.lngLat
          /\ popup'.pos = popup.pos
          /\ popup'.map = popup.map
          /\ subs' = subs
          /\ log' = << >>
          /\ ~raised'
          /\ pending' = pending + 1]_vars
  /\ [][last' = "frame" => UNCHANGED <<popup, subs>>]_vars

\* componentDidUpdate has received another map surface than the bound one: the
\* old surface is still the bound and subscribed one.
C17_Witness ==
  /\ last = "componentDidUpdate"
  /\ popup.map = "m1"
  /\ props.map = "m2"
  /\ subs["m1"].move /\ subs["m1"].remove
  /\ ~subs["m2"].move /\ ~subs["m2"].remove

BottomAnchors == {"bottom", "bottom-left", "bottom-right"}
TopAnchors == {"top", "top-left", "top-right"}
RightAnchors == {"right", "top-right", "bottom-right"}
LeftAnchors == {"left", "top-left", "bottom-left"}

\* C18 as stated: a popup higher than the viewport gets no vertical tag, a
\* popup wider than the viewport no horizontal tag, wherever it is.
C18_LargerThanViewportNoTag ==
  out.anchor # Absent =>
    /\ dom.height > dom.clientH => out.anchor \notin BottomAnchors \cup TopAnchors
    /\ dom.width > dom.clientW => out.anchor \notin RightAnchors \cup LeftAnchors

\* C18 as amended: a popup larger than the viewport in a dimension gets the
\* tag its coordinate gives it: "bottom" ("right") when the coordinate is
\* greater than the popup's size, "top" ("left") when it is less than the
\* viewport's size minus the popup's size, and no tag only between the two.
C18_LargerThanViewportTag ==
  out.anchor # Absent =>
    LET X == dom.rect[props.map][1] + popup.pos[1]
        Y == dom.rect[props.map][2] + popup.pos[2]
    IN  /\ dom.height > dom.clientH =>
             /\ out.anchor \in BottomAnchors <=> Y > dom.height
             /\ out.anchor \in TopAnchors <=> Y < dom.clientH - dom.height
        /\ dom.width > dom.clientW =>
             /\ out.anchor \in RightAnchors <=> X > dom.width
             /\ out.anchor \in LeftAnchors <=> X < dom.clientW - dom.width

\* A popup higher and wider than the viewport has got both tags.
C18_Witness ==
  /\ dom.height > dom.clientH
  /\ dom.width > dom.clientW
  /\ out.anchor = "bottom-right"

\* The anchor the merge leaves: the caller's, or null.
MergedAnchor ==
  IF Has(props.options, "anchor") THEN props.options.anchor ELSE "null"

\* C19: every callback that passed its guard assigns the anchor: up to the
\* assignment the anchor option is the merged one (the caller's, if given),
\* from the assignment to the end of the callback it is the anchor computed
\* from the popup's position, whatever the caller's options say.
C19_AnchorIsComputed ==
  [][(RunCallback /\ GuardPasses) =>
       /\ ~raised'
       /\ popup'.pos # NoSeq
       /\ popup'.options.anchor =
            _calculateAnchorPosition(popup'.pos, dom, props.map)
       /\ \E j \in 1..Len(log') :
            /\ log'[j].op = "anchor"
            /\ \A i \in 1..(j - 1) : log'[i].options.anchor = MergedAnchor
            /\ \A i \in j..Len(log') :
                 log'[i].options.anchor = popup'.options.anchor]_vars

\* C19 for coordinates given as arrays [lng, lat] only.
C19_ArrayForm ==
  [][(RunCallback /\ GuardPasses /\ props.location.kind = "array"
        /\ Len(props.location.val) = 2) =>
       /\ ~raised'
       /\ popup'.pos # NoSeq
       /\ popup'.options.anchor =
            _calculateAnchorPosition(popup'.pos, dom, props.map)
       /\ \E j \in 1..Len(log') :
            /\ log'[j].op = "anchor"
            /\ \A i \in 1..(j - 1) : log'[i].options.anchor = MergedAnchor
            /\ \A i \in j..Len(log') :
                 log'[i].options.anchor = popup'.options.anchor]_vars

\* C20: a surface has the 'move' subscription exactly when it has the
\* 'remove' subscription, exactly when it is the surface the popup records as
\* its map; and the recorded surface becomes another surface only in a
\* callback that passed its guard.
C20_SubscriptionsFollowRecordedMap ==
  /\ [](\A s \in Surfaces :
          /\ subs[s].move <=> subs[s].remove
          /\ subs[s].move <=> popup.map = s)
  /\ [][(popup'.map # popup.map /\ popup'.map # NoMap) =>
          (RunCallback /\ GuardPasses /\ popup'.map = props.map)]_vars
  /\ [][(\E s \in Surfaces : ~subs[s].move /\ subs'[s].move) =>
          (RunCallback /\ GuardPasses)]_vars

\* A callback has replaced the bound surface m1 by m2: m2 is recorded and
\* holds both subscriptions, m1 none.
C20_Witness ==
  /\ last = "callback"
  /\ popup.map = "m2"
  /\ subs["m2"].move /\ subs["m2"].remove
  /\ ~subs["m1"].move /\ ~subs["m1"].remove
  /\ \E i \in 1..Len(log) : log[i].op = "off" /\ log[i].map = "m1"

====
